---- MODULE Spec2Model ----
(***************************************************************************)
(* A model of packages/router/utils.ts: route matching (matchRoutes,       *)
(* flattenRoutes, rankRouteBranches, computeScore, matchRouteBranch,       *)
(* matchPath, compilePath), stripBasename and relative path resolution     *)
(* (resolvePath, resolveTo).                                               *)
(*                                                                         *)
(* A JavaScript string is a sequence of one-character strings, so that     *)
(* "/a" is <<"/", "a">>.  null and undefined are the one-element           *)
(* sequences Null and Undefined, which no string of characters equals.     *)
(***************************************************************************)
EXTENDS Integers, Sequences, FiniteSets, TLC

Null == <<"null">>
Undefined == <<"undefined">>

\* ------------------------------------------------------------------------
\* Characters
\* ------------------------------------------------------------------------
LowerLetters == <<"a","b","c","d","e","f","g","h","i","j","k","l","m",
                  "n","o","p","q","r","s","t","u","v","w","x","y","z">>
UpperLetters == <<"A","B","C","D","E","F","G","H","I","J","K","L","M",
                  "N","O","P","Q","R","S","T","U","V","W","X","Y","Z">>
DigitChars == {"0","1","2","3","4","5","6","7","8","9"}

Range(s) == {s[i] : i \in 1..Len(s)}

\* \w of a JavaScript regular expression
IsWordChar(c) == c \in Range(LowerLetters) \cup Range(UpperLetters) \cup DigitChars \cup {"_"}

\* String.prototype.toLowerCase on one character
LowerChar(c) ==
  IF c \in Range(UpperLetters)
    THEN LowerLetters[CHOOSE i \in 1..26 : UpperLetters[i] = c]
    ELSE c

toLowerCase(s) == [i \in 1..Len(s) |-> LowerChar(s[i])]

\* ------------------------------------------------------------------------
\* String primitives
\* ------------------------------------------------------------------------
\* s.startsWith(p)
startsWith(s, p) == Len(p) <= Len(s) /\ SubSeq(s, 1, Len(p)) = p

\* s.endsWith(p)
endsWith(s, p) == Len(p) <= Len(s) /\ SubSeq(s, Len(s) - Len(p) + 1, Len(s)) = p

\* s.slice(n), n >= 0
slice(s, n) == IF n >= Len(s) THEN <<>> ELSE SubSeq(s, n + 1, Len(s))

\* s.charAt(n): "" past the end
charAt(s, n) == IF n < Len(s) THEN <<s[n + 1]>> ELSE <<>>

\* s.split("/"): the pieces between the slashes ("" gives [""])
RECURSIVE split(_)
split(s) ==
  IF \A i \in 1..Len(s) : s[i] # "/"
    THEN <<s>>
    ELSE LET k == CHOOSE i \in 1..Len(s) :
                    s[i] = "/" /\ \A j \in 1..(i - 1) : s[j] # "/"
         IN <<SubSeq(s, 1, k - 1)>> \o split(SubSeq(s, k + 1, Len(s)))

\* parts.join("/")
RECURSIVE join(_)
join(parts) ==
  IF Len(parts) = 0 THEN <<>>
  ELSE IF Len(parts) = 1 THEN parts[1]
  ELSE parts[1] \o <<"/">> \o join(Tail(parts))

\* s.replace(/\/\/+/g, "/")
RECURSIVE collapseSlashes(_)
collapseSlashes(s) ==
  IF Len(s) <= 1 THEN s
  ELSE IF s[1] = "/" /\ s[2] = "/" THEN collapseSlashes(Tail(s))
  ELSE <<s[1]>> \o collapseSlashes(Tail(s))

\* s.replace(/\/+$/, "")
RECURSIVE stripTrailingSlashes(_)
stripTrailingSlashes(s) ==
  IF Len(s) > 0 /\ s[Len(s)] = "/"
    THEN stripTrailingSlashes(SubSeq(s, 1, Len(s) - 1))
    ELSE s

\* s.replace(/^\/*/, "/")
RECURSIVE stripLeadingSlashes(_)
stripLeadingSlashes(s) ==
  IF Len(s) > 0 /\ s[1] = "/" THEN stripLeadingSlashes(Tail(s)) ELSE s

ensureLeadingSlash(s) == <<"/">> \o stripLeadingSlashes(s)

\* s.replace(/(.)\/+$/, "$1")
stripTrailingSlashesKeepFirst(s) ==
  LET t == stripTrailingSlashes(s)
  IN IF t = s THEN s
     ELSE IF t = <<>> THEN <<s[1]>>
     ELSE t

joinPaths(paths) == collapseSlashes(join(paths))

normalizePathname(pathname) == ensureLeadingSlash(stripTrailingSlashes(pathname))

\* normalizeSearch that leaves a bare ? as it is
normalizeSearchKeepBare(search) ==
  IF search = <<>> \/ search = Undefined THEN <<>>
  ELSE IF startsWith(search, <<"?">>) THEN search
  ELSE <<"?">> \o search

normalizeSearch(search) ==
  IF search = <<>> \/ search = Undefined \/ search = <<"?">> THEN <<>>
  ELSE IF startsWith(search, <<"?">>) THEN search
  ELSE <<"?">> \o search

normalizeHash(hash) ==
  IF hash = <<>> \/ hash = Undefined \/ hash = <<"#">> THEN <<>>
  ELSE IF startsWith(hash, <<"#">>) THEN hash
  ELSE <<"#">> \o hash

\* ------------------------------------------------------------------------
\* Scoring and ranking
\* ------------------------------------------------------------------------
dynamicSegmentValue == 3
indexRouteValue == 2
emptySegmentValue == 1
staticSegmentValue == 10
splatPenalty == -2

isSplat(s) == s = <<"*">>

\* paramRe = /^:\w+$/
paramReTest(s) ==
  /\ Len(s) >= 2
  /\ s[1] = ":"
  /\ \A i \in 2..Len(s) : IsWordChar(s[i])

\* segmentValue with the values of a static and a dynamic segment exchanged
segmentValueSwapped(segment) ==
  IF paramReTest(segment) THEN staticSegmentValue
  ELSE IF segment = <<>> THEN emptySegmentValue
  ELSE dynamicSegmentValue

segmentValue(segment) ==
  IF paramReTest(segment) THEN dynamicSegmentValue
  ELSE IF segment = <<>> THEN emptySegmentValue
  ELSE staticSegmentValue

RECURSIVE sumSegments(_)
sumSegments(segments) ==
  IF Len(segments) = 0 THEN 0
  ELSE (IF isSplat(segments[1]) THEN 0 ELSE segmentValue(segments[1]))
       + sumSegments(Tail(segments))

\* computeScore with the splat penalty subtracted instead of added
computeScoreSplatBonus(path, index) ==
  LET segments == split(path)
      initialScore == Len(segments)
                      - (IF \E i \in 1..Len(segments) : isSplat(segments[i])
                           THEN splatPenalty ELSE 0)
                      + (IF index THEN indexRouteValue ELSE 0)
  IN initialScore + sumSegments(segments)

computeScore(path, index) ==
  LET segments == split(path)
      initialScore == Len(segments)
                      + (IF \E i \in 1..Len(segments) : isSplat(segments[i])
                           THEN splatPenalty ELSE 0)
                      + (IF index THEN indexRouteValue ELSE 0)
  IN initialScore + sumSegments(segments)

\* compareIndexes with the siblings compared the other way round
compareIndexesReversed(a, b) ==
  LET siblings == /\ Len(a) = Len(b)
                  /\ \A i \in 1..(Len(a) - 1) : a[i] = b[i]
  IN IF siblings THEN b[Len(b)] - a[Len(a)] ELSE 0

compareIndexes(a, b) ==
  LET siblings == /\ Len(a) = Len(b)
                  /\ \A i \in 1..(Len(a) - 1) : a[i] = b[i]
  IN IF siblings THEN a[Len(a)] - b[Len(b)] ELSE 0

childrenIndexes(branch) ==
  [i \in 1..Len(branch.routesMeta) |-> branch.routesMeta[i].childrenIndex]

\* the comparator handed to branches.sort
compareBranches(a, b) ==
  IF a.score # b.score
    THEN b.score - a.score
    ELSE compareIndexes(childrenIndexes(a), childrenIndexes(b))

\* Array.prototype.sort: binary insertion of each element into the sorted
\* prefix, the element going after every element it does not sort before
RECURSIVE insertPosition(_, _, _, _)
insertPosition(sorted, x, left, right) ==
  IF left >= right THEN left
  ELSE LET mid == left + ((right - left) \div 2)
       IN IF compareBranches(x, sorted[mid + 1]) < 0
            THEN insertPosition(sorted, x, left, mid)
            ELSE insertPosition(sorted, x, mid + 1, right)

insertSorted(sorted, x) ==
  LET p == insertPosition(sorted, x, 0, Len(sorted))
  IN SubSeq(sorted, 1, p) \o <<x>> \o SubSeq(sorted, p + 1, Len(sorted))

RECURSIVE sortFrom(_, _, _)
sortFrom(sorted, branches, k) ==
  IF k > Len(branches) THEN sorted
  ELSE sortFrom(insertSorted(sorted, branches[k]), branches, k + 1)

rankRouteBranches(branches) == sortFrom(<<>>, branches, 1)

\* ------------------------------------------------------------------------
\* Flattening
\* ------------------------------------------------------------------------
\* the outcome of flattenRoutes: the branches, or the Error invariant threw
Thrown == [ok |-> FALSE, branches |-> <<>>]

RECURSIVE flattenFrom(_, _, _, _, _)
flattenFrom(routes, k, acc, parentsMeta, parentPath) ==
  IF ~acc.ok \/ k > Len(routes) THEN acc
  ELSE
    LET route == routes[k]
        declared == IF route.path = Undefined THEN <<>> ELSE route.path
        absolute == startsWith(declared, <<"/">>)
        relativePath == IF absolute THEN slice(declared, Len(parentPath))
                        ELSE declared
        \* route: the reference to the route object, held as the place of
        \* the object in the tree (the child indexes from the root)
        meta == [relativePath |-> relativePath,
                 caseSensitive |-> route.caseSensitive,
                 childrenIndex |-> k - 1,
                 route |-> [i \in 1..(Len(parentsMeta) + 1) |->
                             IF i <= Len(parentsMeta)
                               THEN parentsMeta[i].childrenIndex ELSE k - 1]]
        path == joinPaths(<<parentPath, relativePath>>)
        routesMeta == Append(parentsMeta, meta)
        hasChildren == Len(route.children) > 0
        afterChildren == IF hasChildren
                           THEN flattenFrom(route.children, 1, acc, routesMeta, path)
                           ELSE acc
        afterSelf == IF route.path = Undefined /\ ~route.index
                       THEN afterChildren
                       ELSE [afterChildren EXCEPT !.branches =
                               Append(@, [path |-> path,
                                          score |-> computeScore(path, route.index),
                                          routesMeta |-> routesMeta])]
    IN IF absolute /\ ~startsWith(declared, parentPath) THEN Thrown
       ELSE IF hasChildren /\ route.index THEN Thrown
       ELSE IF ~afterChildren.ok THEN Thrown
       ELSE flattenFrom(routes, k + 1, afterSelf, parentsMeta, parentPath)

flattenRoutes(routes) ==
  flattenFrom(routes, 1, [ok |-> TRUE, branches |-> <<>>], <<>>, <<>>)

\* ------------------------------------------------------------------------
\* Percent decoding
\* ------------------------------------------------------------------------
HexDigits == <<"0","1","2","3","4","5","6","7","8","9","A","B","C","D","E","F">>

IsHexDigit(c) == c \in Range(HexDigits) \/ (c \in Range(LowerLetters) /\ LowerChar(c) \in {"a","b","c","d","e","f"})

UpperChar(c) ==
  IF c \in Range(LowerLetters)
    THEN UpperLetters[CHOOSE i \in 1..26 : LowerLetters[i] = c]
    ELSE c

hexValue(c) == (CHOOSE i \in 1..16 : HexDigits[i] = UpperChar(c)) - 1

\* the characters of code 32 .. 126 (the grave accent, code 96, is written
\* out by name: the lexer of TLA+ has no string for it)
AsciiPrintable ==
  <<" ","!","\"","#","$","%","&","'","(",")","*","+",",","-",".","/",
    "0","1","2","3","4","5","6","7","8","9",":",";","<","=",">","?",
    "@","A","B","C","D","E","F","G","H","I","J","K","L","M","N","O",
    "P","Q","R","S","T","U","V","W","X","Y","Z","[","\\","]","^","_",
    "grave","a","b","c","d","e","f","g","h","i","j","k","l","m","n","o",
    "p","q","r","s","t","u","v","w","x","y","z","{","|","}","~">>

\* decodeURIComponent(value), or Null where it throws URIError.  An escape
\* of a byte from 0x20 to 0x7E is the character of that code; an escape of
\* a byte of 0x80 or more that no continuation byte follows is malformed.
\* The pathnames of the model hold no escape of a control character and no
\* well-formed multi-byte sequence.
RECURSIVE decodeURIComponent(_)
decodeURIComponent(value) ==
  IF Len(value) = 0 THEN <<>>
  ELSE IF value[1] # "%"
    THEN LET rest == decodeURIComponent(Tail(value))
         IN IF rest = Null THEN Null ELSE <<value[1]>> \o rest
  ELSE IF Len(value) < 3 \/ ~IsHexDigit(value[2]) \/ ~IsHexDigit(value[3])
    THEN Null
  ELSE LET byte == 16 * hexValue(value[2]) + hexValue(value[3])
           rest == decodeURIComponent(SubSeq(value, 4, Len(value)))
       IN IF byte < 32 \/ byte > 126 \/ rest = Null THEN Null
          ELSE <<AsciiPrintable[byte - 31]>> \o rest

safelyDecodeURIComponent(value) ==
  LET decoded == decodeURIComponent(value)
  IN IF decoded = Null THEN value ELSE decoded

\* ------------------------------------------------------------------------
\* Pattern compiler
\* ------------------------------------------------------------------------
\* path.replace(/\/*\*?$/, "")
stripTrailingSplat(path) ==
  IF endsWith(path, <<"*">>)
    THEN stripTrailingSlashes(SubSeq(path, 1, Len(path) - 1))
    ELSE stripTrailingSlashes(path)

\* the length of the run of \w characters of s that starts at index i
RECURSIVE wordRun(_, _)
wordRun(s, i) ==
  IF i <= Len(s) /\ IsWordChar(s[i]) THEN 1 + wordRun(s, i + 1) ELSE 0

\* The regular expression source as a sequence of tokens: a literal
\* character (every special character is escaped) or the group ([^\/]+)
\* that replaces :name, whose name is recorded.
RECURSIVE tokensFrom(_, _)
tokensFrom(s, i) ==
  IF i > Len(s) THEN <<>>
  ELSE IF s[i] = ":" /\ wordRun(s, i + 1) > 0
    THEN <<[kind |-> "param", ch |-> "", name |-> SubSeq(s, i + 1, i + wordRun(s, i + 1))]>>
         \o tokensFrom(s, i + 1 + wordRun(s, i + 1))
  ELSE <<[kind |-> "lit", ch |-> s[i], name |-> <<>>]>> \o tokensFrom(s, i + 1)

compilePath(path, caseSensitive, end) ==
  LET tokens == tokensFrom(ensureLeadingSlash(stripTrailingSplat(path)), 1)
      names == [i \in 1..Len(SelectSeq(tokens, LAMBDA t : t.kind = "param")) |->
                  SelectSeq(tokens, LAMBDA t : t.kind = "param")[i].name]
      splat == endsWith(path, <<"*">>)
  IN [tokens |-> tokens,
      paramNames |-> IF splat THEN Append(names, <<"*">>) ELSE names,
      tail |-> IF splat
                 THEN (IF path = <<"*">> \/ path = <<"/", "*">>
                         THEN "rest"          \* (.*)$
                         ELSE "splat")        \* (?:\/(.+)|\/*)$
                 ELSE (IF end
                         THEN "end"           \* \/*$
                         ELSE "boundary"),    \* (?:(?=[.~-]|%[0-9A-F]{2})|\b|\/|$)
      caseSensitive |-> caseSensitive]

\* ------------------------------------------------------------------------
\* Pattern matcher
\* ------------------------------------------------------------------------
NoMatch == [ok |-> FALSE, end |-> 0, caps |-> <<>>]

allSlashes(s, from) == \A i \in from..Len(s) : s[i] = "/"

\* a \b that looks at the character before the position only
wordBoundaryAfterWord(s, pos) == pos >= 1 /\ IsWordChar(s[pos])

\* \b at position pos (between s[pos] and s[pos + 1])
wordBoundary(s, pos) ==
  LET before == pos >= 1 /\ IsWordChar(s[pos])
      after == pos < Len(s) /\ IsWordChar(s[pos + 1])
  IN before # after

\* (?=[.~-]|%[0-9A-F]{2}) at position pos; under the i flag a-f are digits too
lookahead(s, pos, caseSensitive) ==
  \/ pos < Len(s) /\ s[pos + 1] \in {".", "~", "-"}
  \/ /\ pos + 3 <= Len(s)
     /\ s[pos + 1] = "%"
     /\ \A j \in {pos + 2, pos + 3} :
          /\ IsHexDigit(s[j])
          /\ (caseSensitive => s[j] = UpperChar(s[j]))

\* the end of the expression, tried at position pos with the groups caps
matchTail(tail, s, pos, caps, caseSensitive) ==
  CASE tail = "rest" ->
         [ok |-> TRUE, end |-> Len(s), caps |-> Append(caps, slice(s, pos))]
    [] tail = "splat" ->
         IF pos + 2 <= Len(s) /\ s[pos + 1] = "/"
           THEN [ok |-> TRUE, end |-> Len(s), caps |-> Append(caps, slice(s, pos + 1))]
         ELSE IF allSlashes(s, pos + 1)
           THEN [ok |-> TRUE, end |-> Len(s), caps |-> Append(caps, Undefined)]
         ELSE NoMatch
    [] tail = "end" ->
         IF allSlashes(s, pos + 1)
           THEN [ok |-> TRUE, end |-> Len(s), caps |-> caps]
           ELSE NoMatch
    [] tail = "boundary" ->
         IF lookahead(s, pos, caseSensitive) \/ wordBoundary(s, pos)
           THEN [ok |-> TRUE, end |-> pos, caps |-> caps]
         ELSE IF pos < Len(s) /\ s[pos + 1] = "/"
           THEN [ok |-> TRUE, end |-> pos + 1, caps |-> caps]
         ELSE IF pos = Len(s)
           THEN [ok |-> TRUE, end |-> pos, caps |-> caps]
         ELSE NoMatch

\* the length of the run of characters other than / that starts after pos
RECURSIVE segmentRun(_, _)
segmentRun(s, pos) ==
  IF pos < Len(s) /\ s[pos + 1] # "/" THEN 1 + segmentRun(s, pos + 1) ELSE 0

sameChar(c, d, caseSensitive) ==
  IF caseSensitive THEN c = d ELSE LowerChar(c) = LowerChar(d)

\* The backtracking match of tokens[ti..] and the tail at position pos: a
\* group takes the longest run it can and gives back one character at a
\* time (n is the length being tried).
RECURSIVE matchTokens(_, _, _, _, _)
RECURSIVE matchGroup(_, _, _, _, _, _)
matchTokens(re, ti, s, pos, caps) ==
  IF ti > Len(re.tokens) THEN matchTail(re.tail, s, pos, caps, re.caseSensitive)
  ELSE IF re.tokens[ti].kind = "lit"
    THEN IF pos < Len(s) /\ sameChar(s[pos + 1], re.tokens[ti].ch, re.caseSensitive)
           THEN matchTokens(re, ti + 1, s, pos + 1, caps)
           ELSE NoMatch
  ELSE matchGroup(re, ti, s, pos, caps, segmentRun(s, pos))

matchGroup(re, ti, s, pos, caps, n) ==
  IF n < 1 THEN NoMatch
  ELSE LET r == matchTokens(re, ti + 1, s, pos + n,
                            Append(caps, SubSeq(s, pos + 1, pos + n)))
       IN IF r.ok THEN r ELSE matchGroup(re, ti, s, pos, caps, n - 1)

\* pathname.match(matcher): the expression is anchored at the start
regexMatch(re, pathname) == matchTokens(re, 1, pathname, 0, <<>>)

\* the params object of one match: a later group of the same name
\* overwrites an earlier one
RECURSIVE paramsFrom(_, _, _)
paramsFrom(paramNames, caps, k) ==
  IF k = 0 THEN <<>>
  ELSE LET memo == paramsFrom(paramNames, caps, k - 1)
           raw == IF caps[k] = Undefined THEN <<>> ELSE caps[k]
       IN [key \in DOMAIN memo \cup {paramNames[k]} |->
             IF key = paramNames[k] THEN safelyDecodeURIComponent(raw)
             ELSE memo[key]]

\* what matchPath returns where it returns null
NoPathMatch ==
  [matched |-> FALSE, params |-> <<>>, pathname |-> <<>>, pathnameBase |-> <<>>]

\* matchPath({path, caseSensitive, end}, pathname): the match (matched is
\* FALSE where the code returns null)
matchPath(path, caseSensitive, end, pathname) ==
  LET re == compilePath(path, caseSensitive, end)
      m == regexMatch(re, pathname)
      matchedPathname == SubSeq(pathname, 1, m.end)
      n == Len(re.paramNames)
      hasSplat == n > 0 /\ re.paramNames[n] = <<"*">>
      splatValue == IF m.caps[n] = Undefined THEN <<>> ELSE m.caps[n]
      pathnameBase ==
        IF hasSplat
          THEN stripTrailingSlashesKeepFirst(
                 SubSeq(matchedPathname, 1, Len(matchedPathname) - Len(splatValue)))
          ELSE stripTrailingSlashesKeepFirst(matchedPathname)
  IN IF ~m.ok THEN NoPathMatch
     ELSE [matched |-> TRUE,
           params |-> paramsFrom(re.paramNames, m.caps, n),
           pathname |-> matchedPathname,
           pathnameBase |-> pathnameBase]

\* ------------------------------------------------------------------------
\* Route chain matcher
\* ------------------------------------------------------------------------
\* an Object.assign that keeps the value a key of the target already has
objectAssignKeep(target, source) ==
  [key \in DOMAIN target \cup DOMAIN source |->
     IF key \in DOMAIN target THEN target[key] ELSE source[key]]

\* Object.assign(target, source)
objectAssign(target, source) ==
  [key \in DOMAIN target \cup DOMAIN source |->
     IF key \in DOMAIN source THEN source[key] ELSE target[key]]

\* what matchRouteBranch and matchRoutes return where they return null
NoMatches == [null |-> TRUE, chain |-> <<>>]

\* The loop of matchRouteBranch from segment i on.  Every match of the
\* chain holds the same params object, so the params of each are the
\* object as it is when the loop ends.
RECURSIVE matchBranchFrom(_, _, _, _, _, _)
matchBranchFrom(routesMeta, i, pathname, matchedParams, matchedPathname, matches) ==
  IF i > Len(routesMeta)
    THEN [null |-> FALSE,
          chain |-> [k \in 1..Len(matches) |->
                       [matches[k] EXCEPT !.params = matchedParams]]]
  ELSE
    LET meta == routesMeta[i]
        end == i = Len(routesMeta)
        sliced == slice(pathname, Len(matchedPathname))
        remainingPathname ==
          IF matchedPathname = <<"/">> THEN pathname
          ELSE IF sliced = <<>> THEN <<"/">> ELSE sliced
        match == matchPath(meta.relativePath, meta.caseSensitive, end, remainingPathname)
    IN IF ~match.matched THEN NoMatches
       ELSE matchBranchFrom(
              routesMeta, i + 1, pathname,
              objectAssign(matchedParams, match.params),
              IF match.pathnameBase # <<"/">>
                THEN joinPaths(<<matchedPathname, match.pathnameBase>>)
                ELSE matchedPathname,
              Append(matches,
                     [params |-> <<>>,
                      pathname |-> joinPaths(<<matchedPathname, match.pathname>>),
                      pathnameBase |-> normalizePathname(
                                         joinPaths(<<matchedPathname, match.pathnameBase>>)),
                      route |-> meta.route]))

matchRouteBranch(branch, pathname) ==
  matchBranchFrom(branch.routesMeta, 1, pathname, <<>>, <<"/">>, <<>>)

\* ------------------------------------------------------------------------
\* stripBasename
\* ------------------------------------------------------------------------
\* stripBasename without the check of the character after the basename
stripBasenameAnyNextChar(pathname, basename) ==
  IF basename = <<"/">> THEN pathname
  ELSE IF ~startsWith(toLowerCase(pathname), toLowerCase(basename)) THEN Null
  ELSE IF slice(pathname, Len(basename)) = <<>> THEN <<"/">>
  ELSE slice(pathname, Len(basename))

stripBasename(pathname, basename) ==
  IF basename = <<"/">> THEN pathname
  ELSE IF ~startsWith(toLowerCase(pathname), toLowerCase(basename)) THEN Null
  ELSE IF charAt(pathname, Len(basename)) # <<>>
          /\ charAt(pathname, Len(basename)) # <<"/">> THEN Null
  ELSE IF slice(pathname, Len(basename)) = <<>> THEN <<"/">>
  ELSE slice(pathname, Len(basename))

\* ------------------------------------------------------------------------
\* Relative path resolution
\* ------------------------------------------------------------------------
\* s.indexOf(c): 0-based, -1 when absent
indexOf(s, c) ==
  IF \E i \in 1..Len(s) : s[i] = c
    THEN (CHOOSE i \in 1..Len(s) : s[i] = c /\ \A j \in 1..(i - 1) : s[j] # c) - 1
    ELSE -1

\* parsePath of ./history: the hash from the first #, the search from the
\* first ? before it, the pathname what is left; a part that is not there
\* is undefined
parsePath(str) ==
  LET hashIndex == indexOf(str, "#")
      beforeHash == IF hashIndex >= 0 THEN SubSeq(str, 1, hashIndex) ELSE str
      searchIndex == indexOf(beforeHash, "?")
      beforeSearch == IF searchIndex >= 0 THEN SubSeq(beforeHash, 1, searchIndex)
                      ELSE beforeHash
  IN [pathname |-> IF beforeSearch = <<>> THEN Undefined ELSE beforeSearch,
      search |-> IF searchIndex >= 0 THEN slice(beforeHash, searchIndex) ELSE Undefined,
      hash |-> IF hashIndex >= 0 THEN slice(str, hashIndex) ELSE Undefined]

\* the forEach of resolvePathname over relativeSegments[k..]
RECURSIVE resolveSegments(_, _, _)
resolveSegments(segments, relativeSegments, k) ==
  IF k > Len(relativeSegments) THEN segments
  ELSE LET segment == relativeSegments[k]
       IN resolveSegments(
            IF segment = <<".", ".">>
              THEN (IF Len(segments) > 1
                      THEN SubSeq(segments, 1, Len(segments) - 1)
                      ELSE segments)
            ELSE IF segment # <<".">> THEN Append(segments, segment)
            ELSE segments,
            relativeSegments, k + 1)

resolvePathname(relativePath, fromPathname) ==
  LET segments == resolveSegments(split(stripTrailingSlashes(fromPathname)),
                                  split(relativePath), 1)
  IN IF Len(segments) > 1 THEN join(segments) ELSE <<"/">>

\* resolvePath(to, fromPathname) for a To that is an object
resolvePathObject(to, fromPathname) ==
  [pathname |-> IF to.pathname # Undefined /\ to.pathname # <<>>
                  THEN (IF startsWith(to.pathname, <<"/">>)
                          THEN to.pathname
                          ELSE resolvePathname(to.pathname, fromPathname))
                  ELSE fromPathname,
   search |-> normalizeSearch(to.search),
   hash |-> normalizeHash(to.hash)]

\* resolvePath(to, fromPathname): a string To is parsed first
resolvePath(toValue, fromPathname) ==
  resolvePathObject(IF toValue.isString THEN parsePath(toValue.str) ELSE toValue.object,
                    fromPathname)

\* ------------------------------------------------------------------------
\* The inputs of the model
\* ------------------------------------------------------------------------
\* the most route objects of a route tree
MaxNodes == 3
\* the most segments of a location pathname
MaxSegments == 2
\* the most route objects of a route tree whose params are merged
MaxParamNodes == 3
\* the most route objects of a route tree whose scores are compared
MaxScoreNodes == 2
\* the most route objects of a route tree matched under a basename
MaxBasenameNodes == 2
\* the most route objects of a route tree with absolute child paths
MaxAbsoluteNodes == 3

Route(label, children) ==
  [path |-> label.path, index |-> label.index,
   caseSensitive |-> label.caseSensitive, children |-> children]

Label(path, index, caseSensitive) ==
  [path |-> path, index |-> index, caseSensitive |-> caseSensitive]

\* the route arrays of exactly n route objects, each labelled from labels
RECURSIVE ForestsOfSize(_, _)
ForestsOfSize(n, labels) ==
  IF n = 0 THEN {<<>>}
  ELSE UNION {
         {<<Route(l, c)>> \o f :
            l \in labels,
            c \in ForestsOfSize(k - 1, labels),
            f \in ForestsOfSize(n - k, labels)} : k \in 1..n}

ForestsUpTo(n, labels) == UNION {ForestsOfSize(k, labels) : k \in 1..n}

\* the pathnames of exactly n segments drawn from segments
RECURSIVE PathnamesOfSize(_, _)
PathnamesOfSize(n, segments) ==
  IF n = 0 THEN {<<>>}
  ELSE {<<"/">> \o seg \o rest :
          seg \in segments, rest \in PathnamesOfSize(n - 1, segments)}

PathnamesUpTo(n, segments) ==
  {<<"/">>} \cup UNION {PathnamesOfSize(k, segments) : k \in 1..n}

MatchLabels ==
  {Label(<<"a">>, FALSE, FALSE),
   Label(<<":", "x">>, FALSE, FALSE),
   Label(<<"*">>, FALSE, FALSE),
   Label(Undefined, FALSE, FALSE)}

ParamLabels ==
  {Label(<<"a">>, FALSE, FALSE),
   Label(<<":", "x">>, FALSE, FALSE),
   Label(<<":", "y">>, FALSE, FALSE),
   Label(Undefined, FALSE, FALSE)}

ScoreLabels ==
  {Label(<<"a">>, FALSE, FALSE),
   Label(<<"b">>, FALSE, FALSE),
   Label(<<":", "x">>, FALSE, FALSE),
   Label(<<":", "x", "/", ":", "y">>, FALSE, FALSE),
   Label(<<"*">>, FALSE, FALSE),
   Label(<<"a", "/", "*">>, FALSE, FALSE),
   Label(<<"a", "/", "b", "/", "*">>, FALSE, FALSE),
   Label(Undefined, TRUE, FALSE)}

MatchPathnames ==
  PathnamesUpTo(MaxSegments, {<<"a">>, <<"b">>}) \cup {<<"/", "a", "/">>}

BasenameLabels ==
  {Label(<<"a">>, FALSE, FALSE),
   Label(<<"a">>, FALSE, TRUE),
   Label(<<":", "x">>, FALSE, FALSE),
   Label(<<"*">>, FALSE, FALSE)}

BasenamePathnames ==
  {Undefined, <<>>, <<"/">>, <<"/", "a">>, <<"/", "A">>, <<"/", "a", "/">>,
   <<"/", "a", "b">>, <<"/", "b">>, <<"/", "a", "/", "a">>, <<"/", "A", "/", "a">>,
   <<"/", "a", "/", "/", "A">>, <<"/", "a", "b", "/", "a">>, <<"/", "b", "/", "a">>}

Basenames ==
  {<<"/">>, <<"/", "a">>, <<"/", "A">>, <<"/", "a", "/">>, <<"/", "a", "b">>,
   <<"/", "a", "/", "a">>}

AbsoluteLabels ==
  {Label(<<"/", "a">>, FALSE, FALSE),
   Label(<<"/", "a", "b">>, FALSE, FALSE),
   Label(<<"/", "a", "/", "b">>, FALSE, FALSE),
   Label(<<"/", "a", "/", "/", "b">>, FALSE, FALSE),
   Label(<<"a">>, FALSE, FALSE),
   Label(Undefined, FALSE, FALSE)}

AbsolutePathnames ==
  {<<"/", "a">>, <<"/", "a", "b">>, <<"/", "a", "/", "b">>, <<"/", "a", "/", "a">>}

\* ------------------------------------------------------------------------
\* State
\* ------------------------------------------------------------------------
VARIABLES
  pc,                  \* where the call in progress stands
  routes,              \* matchRoutes: the route tree
  locationArg,         \* matchRoutes: the location
  basename,            \* matchRoutes: the basename
  pathname,            \* matchRoutes: the pathname, basename stripped
  branches,            \* matchRoutes: the branches
  i,                   \* matchRoutes: the loop index
  matches,             \* matchRoutes: the result so far
  called,              \* the operation called
  toArg,               \* resolveTo, resolvePath: the target as handed in
  to,                  \* resolveTo: the object to refers to
  routePathnames,      \* resolveTo: the pathnames of the matched routes
  locationPathname,    \* resolveTo: the pathname of the current location
  toPathname,          \* resolveTo: local
  toSegments,          \* resolveTo: local
  routePathnameIndex,  \* resolveTo: local
  from,                \* resolveTo: local; resolvePath: fromPathname
  path,                \* resolveTo, resolvePath: the result
  callerTo,            \* resolveTo: the caller's target object, as it is now
  firstPath,           \* the result of the first of two calls of resolveTo
  calls,               \* the calls of resolveTo made with the target
  pattern,             \* matchPath: the pattern {path, caseSensitive, end}
  pathnameArg,         \* matchPath: the pathname
  pathMatch            \* matchPath: the result

matchVars == <<routes, locationArg, basename, pathname, branches, i, matches>>
resolveVars == <<toArg, to, routePathnames, locationPathname, toPathname,
                 toSegments, routePathnameIndex, from, path,
                 callerTo, firstPath, calls>>
pathVars == <<pattern, pathnameArg, pathMatch>>
vars == <<pc, called, matchVars, resolveVars, pathVars>>

NoObject == [pathname |-> Undefined, search |-> Undefined, hash |-> Undefined]
NoPath == [pathname |-> <<>>, search |-> <<>>, hash |-> <<>>]

\* no call of matchRoutes is in progress
MatchIdle ==
  /\ routes = <<>>
  /\ locationArg = [pathname |-> Undefined]
  /\ basename = <<"/">>
  /\ pathname = Undefined
  /\ branches = <<>>
  /\ i = 0
  /\ matches = NoMatches

\* no call of resolveTo or resolvePath is in progress
ResolveIdle ==
  /\ toArg = [isString |-> TRUE, str |-> <<>>, object |-> NoObject]
  /\ to = NoObject
  /\ routePathnames = <<>>
  /\ locationPathname = <<"/">>
  /\ toPathname = Undefined
  /\ toSegments = <<>>
  /\ routePathnameIndex = 0
  /\ from = <<"/">>
  /\ path = NoPath
  /\ callerTo = NoObject
  /\ firstPath = NoPath
  /\ calls = 0

\* no call of matchPath is in progress
PathIdle ==
  /\ pattern = [path |-> <<>>, caseSensitive |-> FALSE, end |-> TRUE]
  /\ pathnameArg = <<>>
  /\ pathMatch = NoPathMatch

\* matchRoutes is called with a route tree, a location and a basename
MatchRoutesCalled(forests, pathnames, basenames) ==
  /\ pc = "matchRoutes"
  /\ called = "matchRoutes"
  /\ ResolveIdle
  /\ PathIdle
  /\ routes \in forests
  /\ locationArg \in {[pathname |-> p] : p \in pathnames}
  /\ basename \in basenames
  /\ pathname = Undefined
  /\ branches = <<>>
  /\ i = 0
  /\ matches = NoMatches

InitMatch ==
  MatchRoutesCalled(ForestsUpTo(MaxNodes, MatchLabels), MatchPathnames, {<<"/">>})

InitParams ==
  MatchRoutesCalled(ForestsUpTo(MaxParamNodes, ParamLabels), MatchPathnames, {<<"/">>})

InitScore ==
  MatchRoutesCalled(ForestsUpTo(MaxScoreNodes, ScoreLabels), MatchPathnames, {<<"/">>})

InitBasename ==
  MatchRoutesCalled(ForestsUpTo(MaxBasenameNodes, BasenameLabels),
                    BasenamePathnames, Basenames)

InitAbsolute ==
  MatchRoutesCalled(ForestsUpTo(MaxAbsoluteNodes, AbsoluteLabels),
                    AbsolutePathnames, {<<"/">>})

\* ------------------------------------------------------------------------
\* matchRoutes
\* ------------------------------------------------------------------------
\* location.pathname || "/"
locationPathnameOrRoot(location) ==
  IF location.pathname = Undefined \/ location.pathname = <<>>
    THEN <<"/">> ELSE location.pathname
\* a loop over the branches that does not stop at the first match
loopToTheEnd(m, k, bs) == k < Len(bs)

\* the condition of the loop over the branches
loopContinues(m, k, bs) == m.null /\ k < Len(bs)

\* let pathname = stripBasename(...); if (pathname == null) return null
StripBasename ==
  /\ pc = "matchRoutes"
  /\ pathname' = stripBasename(locationPathnameOrRoot(locationArg), basename)
  /\ pc' = IF pathname' = Null THEN "returned" ELSE "flatten"
  /\ UNCHANGED <<called, routes, locationArg, basename, branches, i, matches, resolveVars, pathVars>>

\* let branches = flattenRoutes(routes), which may throw
FlattenRoutes ==
  /\ pc = "flatten"
  /\ LET flat == flattenRoutes(routes)
     IN /\ branches' = flat.branches
        /\ pc' = IF flat.ok THEN "rank" ELSE "thrown"
  /\ UNCHANGED <<called, routes, locationArg, basename, pathname, i, matches, resolveVars, pathVars>>

\* rankRouteBranches(branches); let matches = null; i = 0
RankRouteBranches ==
  /\ pc = "rank"
  /\ branches' = rankRouteBranches(branches)
  /\ i' = 0
  /\ matches' = NoMatches
  /\ pc' = "loop"
  /\ UNCHANGED <<called, routes, locationArg, basename, pathname, resolveVars, pathVars>>

\* matches = matchRouteBranch(branches[i], pathname); ++i
MatchBranch ==
  /\ pc = "loop"
  /\ loopContinues(matches, i, branches)
  /\ matches' = matchRouteBranch(branches[i + 1], pathname)
  /\ i' = i + 1
  /\ UNCHANGED <<pc, called, routes, locationArg, basename, pathname, branches, resolveVars, pathVars>>

\* return matches
ReturnMatches ==
  /\ pc = "loop"
  /\ ~loopContinues(matches, i, branches)
  /\ pc' = "returned"
  /\ UNCHANGED <<called, matchVars, resolveVars, pathVars>>

NextMatch ==
  \/ StripBasename
  \/ FlattenRoutes
  \/ RankRouteBranches
  \/ MatchBranch
  \/ ReturnMatches

SpecMatch == InitMatch /\ [][NextMatch]_vars
SpecParams == InitParams /\ [][NextMatch]_vars
SpecScore == InitScore /\ [][NextMatch]_vars
SpecBasename == InitBasename /\ [][NextMatch]_vars
SpecAbsolute == InitAbsolute /\ [][NextMatch]_vars

\* ------------------------------------------------------------------------
\* resolveTo and resolvePath
\* ------------------------------------------------------------------------
\* the most pathnames of a chain of matched routes
MaxChain == 2

TargetPathnames ==
  {Undefined, <<>>, <<"/">>, <<"/", "a">>, <<"a">>, <<"a", "/">>, <<".">>,
   <<".", "/", "a">>, <<"a", "/", ".", ".">>, <<".", ".", "a">>,
   <<".", ".">>, <<".", ".", "/">>, <<".", ".", "/", "a">>, <<".", ".", "/", "a", "/">>,
   <<".", ".", "/", ".", ".">>, <<".", ".", "/", ".", ".", "/", "a">>,
   <<".", ".", "/", ".", ".", "/", ".", ".">>}

TargetSearches == {Undefined, <<>>, <<"?">>, <<"?", "q">>, <<"q">>}
TargetHashes == {Undefined, <<>>, <<"#">>, <<"#", "h">>, <<"h">>}

\* a To that is an object
ObjectTargets ==
  {[isString |-> FALSE, str |-> <<>>,
    object |-> [pathname |-> p, search |-> s, hash |-> h]] :
     p \in TargetPathnames, s \in TargetSearches, h \in TargetHashes}

\* a To that is a string: a pathname, a search and a hash, each maybe empty
StringTargets ==
  {[isString |-> TRUE, str |-> p \o s \o h, object |-> NoObject] :
     p \in TargetPathnames \ {Undefined},
     s \in {<<>>, <<"?">>, <<"?", "q">>},
     h \in {<<>>, <<"#">>, <<"#", "h">>}}

RoutePathnameChoices == {<<"/">>, <<"/", "a">>, <<"/", "a", "/", "b">>}

RoutePathnameChains ==
  UNION {[1..n -> RoutePathnameChoices] : n \in 0..MaxChain}

LocationPathnames == {<<"/">>, <<"/", "a", "/", "b">>, <<"/", "c">>, <<"/", "c", "/">>}

ResolveToCalled ==
  /\ pc = "resolveTo"
  /\ called = "resolveTo"
  /\ toArg \in ObjectTargets \cup StringTargets
  /\ routePathnames \in RoutePathnameChains
  /\ locationPathname \in LocationPathnames
  /\ from = <<"/">>

ResolvePathCalled ==
  /\ pc = "resolvePath"
  /\ called = "resolvePath"
  /\ toArg \in ObjectTargets \cup StringTargets
  /\ routePathnames = <<>>
  /\ locationPathname = <<"/">>
  /\ from \in LocationPathnames

InitResolve ==
  /\ MatchIdle
  /\ PathIdle
  /\ to = NoObject
  /\ toPathname = Undefined
  /\ toSegments = <<>>
  /\ routePathnameIndex = 0
  /\ path = NoPath
  /\ (ResolveToCalled \/ ResolvePathCalled)
  /\ callerTo = (IF toArg.isString THEN NoObject ELSE toArg.object)
  /\ firstPath = NoPath
  /\ calls = 1

\* toArg === "" || to.pathname === "" ? "/" : to.pathname, with the to
\* that toArg gives
toPathnameOfDropEmptyString(arg) ==
  LET t == IF arg.isString THEN parsePath(arg.str) ELSE arg.object
  IN IF t.pathname = <<>> THEN <<"/">> ELSE t.pathname

toPathnameOf(arg) ==
  LET t == IF arg.isString THEN parsePath(arg.str) ELSE arg.object
  IN IF (arg.isString /\ arg.str = <<>>) \/ t.pathname = <<>>
       THEN <<"/">> ELSE t.pathname

\* routePathnameIndex > 0 in place of routePathnameIndex >= 0
selectFromAboveZero(chain, index) ==
  IF index > 0 THEN chain[index + 1] ELSE <<"/">>

\* routePathnameIndex >= 0 ? routePathnames[routePathnameIndex] : "/"
selectFrom(chain, index) ==
  IF index >= 0 THEN chain[index + 1] ELSE <<"/">>

\* the trailing slash of the original to value, given back to the result
withTrailingSlash(resolved, original) ==
  IF /\ original # Undefined /\ original # <<>>
     /\ original # <<"/">>
     /\ endsWith(original, <<"/">>)
     /\ ~endsWith(resolved.pathname, <<"/">>)
    THEN [resolved EXCEPT !.pathname = @ \o <<"/">>]
    ELSE resolved

\* let to = ...; let toPathname = ...; and the choice of from where the
\* pathname has no leading ..
ResolveToEntry ==
  /\ pc = "resolveTo"
  /\ to' = IF toArg.isString THEN parsePath(toArg.str) ELSE toArg.object
  /\ toPathname' = toPathnameOf(toArg)
  /\ IF toPathname' = Undefined
       THEN /\ from' = locationPathname
            /\ pc' = "resolve"
            /\ UNCHANGED <<routePathnameIndex, toSegments>>
       ELSE /\ routePathnameIndex' = Len(routePathnames) - 1
            /\ IF startsWith(toPathname', <<".", ".">>)
                 THEN /\ toSegments' = split(toPathname')
                      /\ pc' = "pop"
                      /\ UNCHANGED from
                 ELSE /\ from' = selectFrom(routePathnames, routePathnameIndex')
                      /\ pc' = "resolve"
                      /\ UNCHANGED toSegments
  /\ UNCHANGED <<called, matchVars, pathVars, callerTo, firstPath, calls, toArg,
                 routePathnames, locationPathname, path>>

\* while (toSegments[0] === "..") { toSegments.shift(); routePathnameIndex -= 1 }
PopSegment ==
  /\ pc = "pop"
  /\ Len(toSegments) > 0 /\ toSegments[1] = <<".", ".">>
  /\ toSegments' = Tail(toSegments)
  /\ routePathnameIndex' = routePathnameIndex - 1
  /\ UNCHANGED <<pc, called, matchVars, pathVars, callerTo, firstPath, calls, toArg, to, routePathnames, locationPathname,
                 toPathname, from, path>>

\* to.pathname = toSegments.join("/"); from = ...  Where toArg is an
\* object, to is that object and the assignment writes to it.
EndPop ==
  /\ pc = "pop"
  /\ ~(Len(toSegments) > 0 /\ toSegments[1] = <<".", ".">>)
  /\ to' = [to EXCEPT !.pathname = join(toSegments)]
  /\ from' = selectFrom(routePathnames, routePathnameIndex)
  /\ callerTo' = (IF toArg.isString THEN callerTo ELSE to')
  /\ pc' = "resolve"
  /\ UNCHANGED <<called, matchVars, pathVars, firstPath, calls, toArg, routePathnames, locationPathname,
                 toPathname, toSegments, routePathnameIndex, path>>

\* let path = resolvePath(to, from); the trailing slash; return path
ResolveToReturn ==
  /\ pc = "resolve"
  /\ path' = withTrailingSlash(
               resolvePath([isString |-> FALSE, str |-> <<>>, object |-> to], from),
               toPathname)
  /\ pc' = "resolved"
  /\ UNCHANGED <<called, matchVars, pathVars, callerTo, firstPath, calls, toArg, to, routePathnames, locationPathname,
                 toPathname, toSegments, routePathnameIndex, from>>

\* resolvePath(to, fromPathname), called by itself
ResolvePathReturn ==
  /\ pc = "resolvePath"
  /\ path' = resolvePath(toArg, from)
  /\ pc' = "resolved"
  /\ UNCHANGED <<called, matchVars, pathVars, callerTo, firstPath, calls, toArg, to, routePathnames, locationPathname,
                 toPathname, toSegments, routePathnameIndex, from>>

NextResolve ==
  \/ ResolveToEntry
  \/ PopSegment
  \/ EndPop
  \/ ResolveToReturn
  \/ ResolvePathReturn

SpecResolve == InitResolve /\ [][NextResolve]_vars

\* resolveTo is called a second time with the same target, route pathnames
\* and location pathname; a target object is handed in as it is now
ResolveToAgain ==
  /\ pc = "resolved"
  /\ called = "resolveTo"
  /\ calls = 1
  /\ firstPath' = path
  /\ calls' = 2
  /\ toArg' = (IF toArg.isString THEN toArg ELSE [toArg EXCEPT !.object = callerTo])
  /\ to' = NoObject
  /\ toPathname' = Undefined
  /\ toSegments' = <<>>
  /\ routePathnameIndex' = 0
  /\ from' = <<"/">>
  /\ path' = NoPath
  /\ pc' = "resolveTo"
  /\ UNCHANGED <<called, matchVars, pathVars, callerTo, routePathnames, locationPathname>>

NextResolveAgain ==
  \/ ResolveToEntry
  \/ PopSegment
  \/ EndPop
  \/ ResolveToReturn
  \/ ResolvePathReturn
  \/ ResolveToAgain

SpecResolveAgain == InitResolve /\ [][NextResolveAgain]_vars

\* ------------------------------------------------------------------------
\* matchPath
\* ------------------------------------------------------------------------
\* the paths of the patterns
PatternPaths ==
  {<<>>, <<"/">>, <<"a">>, <<"/", "a">>, <<"/", "a", "/">>, <<"/", "a", "-">>,
   <<"/", "a", "/", "b">>, <<":", "x">>, <<"a", "/", ":", "x">>, <<"*">>,
   <<"a", "/", "*">>}

\* what a pathname starts with
PathnameHeads ==
  {<<"/">>, <<"/", "a">>, <<"/", "A">>, <<"/", "a", "-">>, <<"/", "a", "/", "b">>}

\* what a pathname goes on with
PathnameTails ==
  {<<>>, <<"/">>, <<"/", "b">>, <<"b">>, <<"2">>, <<"_">>, <<".", "b">>,
   <<"-", "b">>, <<"~", "b">>, <<"%", "2", "F">>, <<"%", "2", "f">>,
   <<"%", "z", "z">>, <<"%">>, <<"!">>, <<"!", "b">>, <<"@", "/", "b">>}

\* matchPath is called with a pattern object and a pathname
MatchPathCalled ==
  /\ pc = "matchPath"
  /\ called = "matchPath"
  /\ pattern \in [path : PatternPaths, caseSensitive : BOOLEAN, end : BOOLEAN]
  /\ pathnameArg \in {h \o t : h \in PathnameHeads, t \in PathnameTails}
  /\ pathMatch = NoPathMatch

InitMatchPath ==
  /\ MatchIdle
  /\ ResolveIdle
  /\ MatchPathCalled

\* matchPath(pattern, pathname)
MatchPathReturn ==
  /\ pc = "matchPath"
  /\ pathMatch' = matchPath(pattern.path, pattern.caseSensitive, pattern.end, pathnameArg)
  /\ pc' = "matched"
  /\ UNCHANGED <<called, matchVars, resolveVars, pattern, pathnameArg>>

NextMatchPath == MatchPathReturn

SpecMatchPath == InitMatchPath /\ [][NextMatchPath]_vars

\* ------------------------------------------------------------------------
\* What the properties speak of
\* ------------------------------------------------------------------------
\* matchRoutes has ranked the branches and is past stripBasename
Ranked == pc \in {"loop", "returned"} /\ pathname # Null

\* matchRoutes has returned from the loop over the branches
Returned == pc = "returned" /\ pathname # Null

\* the ranked branches that match the pathname, by their place in the list
Hits == {j \in 1..Len(branches) : ~matchRouteBranch(branches[j], pathname).null}

Least(S) == CHOOSE j \in S : \A k \in S : j <= k

\* the route object at a place of the tree
RECURSIVE routeAt(_, _)
routeAt(rs, place) ==
  IF Len(place) = 1 THEN rs[place[1] + 1]
  ELSE routeAt(rs[place[1] + 1].children, Tail(place))

\* the branch whose chain matchRoutes returned: the one of the last route
Selected(b) ==
  /\ ~matches.null
  /\ matches.chain[Len(matches.chain)].route = childrenIndexes(b)

BranchSet == Range(branches)

Matches(b) == ~matchRouteBranch(b, pathname).null

\* true siblings: as many segments, the same child index at every level
\* but the last
Siblings(a, b) ==
  /\ Len(a.routesMeta) = Len(b.routesMeta)
  /\ \A k \in 1..(Len(a.routesMeta) - 1) :
       a.routesMeta[k].childrenIndex = b.routesMeta[k].childrenIndex

FinalIndex(b) == b.routesMeta[Len(b.routesMeta)].childrenIndex

EndsInSplat(fullPath) == isSplat(split(fullPath)[Len(split(fullPath))])

SplatFree(fullPath) == \A k \in 1..Len(split(fullPath)) : ~isSplat(split(fullPath)[k])

\* the segments of p are the first segments of q
SegmentPrefix(p, q) == Len(p) <= Len(q) /\ SubSeq(q, 1, Len(p)) = p

WithoutLast(segments) == SubSeq(segments, 1, Len(segments) - 1)

StaticLiteral(segment) ==
  segment # <<>> /\ ~isSplat(segment) /\ ~paramReTest(segment)

\* two splat-free paths of as many segments that differ at one place only,
\* where pa has a static literal and pb a parameter
StaticAgainstDynamic(pa, pb) ==
  LET a == split(pa)
      b == split(pb)
  IN /\ SplatFree(pa) /\ SplatFree(pb)
     /\ Len(a) = Len(b)
     /\ \E k \in 1..Len(a) :
          /\ StaticLiteral(a[k]) /\ paramReTest(b[k])
          /\ \A j \in 1..Len(a) : j # k => a[j] = b[j]

\* ------------------------------------------------------------------------
\* Properties
\* ------------------------------------------------------------------------
(* C1: matchRoutes returns the chain of the first branch of the ranked     *)
(* list that matches the pathname, and null exactly when no branch of the  *)
(* list matches.                                                           *)
C1_FirstMatchingBranch ==
  Returned =>
    IF Hits = {} THEN matches.null
    ELSE matches = matchRouteBranch(branches[Least(Hits)], pathname)

\* the first branch of the list does not match and two later ones do
C1_Witness ==
  /\ Returned
  /\ Cardinality(Hits) >= 2
  /\ Least(Hits) > 1
  /\ ~matches.null

(* C2: once ranked, the scores do not increase along the list, two true    *)
(* siblings of equal score stand in declaration order, and of two such     *)
(* siblings that both match the later-declared one is not selected.        *)
C2_RankedOrder ==
  Ranked =>
    /\ \A j, k \in 1..Len(branches) :
         j < k =>
           /\ branches[j].score >= branches[k].score
           /\ (branches[j].score = branches[k].score
                 /\ Siblings(branches[j], branches[k]))
                => FinalIndex(branches[j]) < FinalIndex(branches[k])
    /\ pc = "returned" =>
         \A a, b \in BranchSet :
           (a.score = b.score /\ Siblings(a, b) /\ FinalIndex(a) < FinalIndex(b)
              /\ Matches(a) /\ Matches(b))
             => ~Selected(b)

\* two true siblings of equal score both match; the first declared is selected
C2_Witness ==
  /\ Returned
  /\ \E a, b \in BranchSet :
       /\ a.score = b.score /\ Siblings(a, b) /\ FinalIndex(a) < FinalIndex(b)
       /\ Matches(a) /\ Matches(b)
       /\ Selected(a)

(* C3, as claimed: when a branch that ends in a splat and a splat-free     *)
(* branch both match, matchRoutes selects a splat-free branch.             *)
C3_SplatNeverSelected ==
  (Returned /\ (\E s, q \in BranchSet :
                  EndsInSplat(s.path) /\ SplatFree(q.path) /\ Matches(s) /\ Matches(q)))
    => \A b \in BranchSet : Selected(b) => SplatFree(b.path)

(* C3, amended: a branch that ends in a splat and is no index route scores *)
(* less than every splat-free branch whose path starts with the segments   *)
(* before the splat, and is not selected when such a branch matches.       *)
C3_SplatBelowItsExtensions ==
  Ranked =>
    \A s, q \in BranchSet :
      (/\ EndsInSplat(s.path)
       /\ ~routeAt(routes, childrenIndexes(s)).index
       /\ SplatFree(q.path)
       /\ SegmentPrefix(WithoutLast(split(s.path)), split(q.path)))
        => /\ s.score < q.score
           /\ (pc = "returned" /\ Matches(s) /\ Matches(q)) => ~Selected(s)

\* a splat branch and a splat-free extension of it both match, and the
\* splat-free one is selected
C3_Witness ==
  /\ Returned
  /\ \E s, q \in BranchSet :
       /\ EndsInSplat(s.path)
       /\ ~routeAt(routes, childrenIndexes(s)).index
       /\ SplatFree(q.path)
       /\ SegmentPrefix(WithoutLast(split(s.path)), split(q.path))
       /\ Matches(s) /\ Matches(q)
       /\ Selected(q)

(* C4: of two splat-free paths of as many segments that differ only in a   *)
(* static literal against a parameter at one place, the static one scores  *)
(* strictly more, and when both branches match the dynamic one is not      *)
(* selected, whichever was declared first.                                 *)
C4_StaticOutranksDynamic ==
  Ranked =>
    \A a, b \in BranchSet :
      StaticAgainstDynamic(a.path, b.path)
        => /\ a.score > b.score
           /\ (pc = "returned" /\ Matches(a) /\ Matches(b)) => ~Selected(b)

\* the dynamic branch is declared first, both match, the static one is selected
C4_Witness ==
  /\ Returned
  /\ \E a, b \in BranchSet :
       /\ StaticAgainstDynamic(a.path, b.path)
       /\ childrenIndexes(b)[1] < childrenIndexes(a)[1]
       /\ Matches(a) /\ Matches(b)
       /\ Selected(a)

\* the params each segment of a chain captures by itself: the loop of
\* matchRouteBranch, nothing merged
RECURSIVE ownParamsFrom(_, _, _, _)
ownParamsFrom(routesMeta, k, p, matchedPathname) ==
  IF k > Len(routesMeta) THEN <<>>
  ELSE
    LET sliced == slice(p, Len(matchedPathname))
        remainingPathname ==
          IF matchedPathname = <<"/">> THEN p
          ELSE IF sliced = <<>> THEN <<"/">> ELSE sliced
        match == matchPath(routesMeta[k].relativePath, routesMeta[k].caseSensitive,
                           k = Len(routesMeta), remainingPathname)
    IN <<match.params>>
       \o ownParamsFrom(routesMeta, k + 1, p,
                        IF match.pathnameBase # <<"/">>
                          THEN joinPaths(<<matchedPathname, match.pathnameBase>>)
                          ELSE matchedPathname)

OwnParams(b) == ownParamsFrom(b.routesMeta, 1, pathname, <<"/">>)

\* the segments of the chain that capture the key
Definers(own, key) == {k \in 1..Len(own) : key \in DOMAIN own[k]}

Greatest(S) == CHOOSE j \in S : \A k \in S : j >= k

(* C10, as claimed: in every chain matchRoutes returns, the value of each  *)
(* param key is the one captured by the shallowest segment that has it.    *)
C10_ShallowestWins ==
  Returned =>
    \A b \in BranchSet :
      Selected(b) =>
        \A k \in 1..Len(matches.chain) :
          \A key \in DOMAIN matches.chain[k].params :
            /\ Definers(OwnParams(b), key) # {}
            /\ matches.chain[k].params[key]
                 = OwnParams(b)[Least(Definers(OwnParams(b), key))][key]

(* C10, amended: the matches of a returned chain share one params mapping; *)
(* its keys are the keys of all the segments, and the value of each key is *)
(* the one captured by the deepest segment that has it (a child segment    *)
(* overwrites the key of an ancestor).                                     *)
C10_DeepestWins ==
  Returned =>
    \A b \in BranchSet :
      Selected(b) =>
        \A k \in 1..Len(matches.chain) :
          /\ DOMAIN matches.chain[k].params
               = UNION {DOMAIN OwnParams(b)[j] : j \in 1..Len(OwnParams(b))}
          /\ \A key \in DOMAIN matches.chain[k].params :
               matches.chain[k].params[key]
                 = OwnParams(b)[Greatest(Definers(OwnParams(b), key))][key]

\* a key captured by two segments of the returned chain, with two values
C10_Witness ==
  /\ Returned
  /\ \E b \in BranchSet :
       /\ Selected(b)
       /\ \E key \in DOMAIN matches.chain[1].params :
            \E j, k \in Definers(OwnParams(b), key) :
              j < k /\ OwnParams(b)[j][key] # OwnParams(b)[k][key]

\* the pathname handed to stripBasename lies under the basename: it starts
\* with it, whatever the case, and a / or nothing follows
UnderBasename ==
  LET p == locationPathnameOrRoot(locationArg)
  IN /\ startsWith(toLowerCase(p), toLowerCase(basename))
     /\ charAt(p, Len(basename)) \in {<<>>, <<"/">>}

\* the pathname with the basename removed, / when nothing is left
BasenameRemoved ==
  LET rest == slice(locationPathnameOrRoot(locationArg), Len(basename))
  IN IF rest = <<>> THEN <<"/">> ELSE rest

(* C5, as claimed: stripBasename returns null exactly when the pathname    *)
(* does not lie under the basename, and else the pathname with the         *)
(* basename removed.                                                       *)
C5_StripBasenameAsClaimed ==
  pc # "matchRoutes" =>
    /\ pathname = Null <=> ~UnderBasename
    /\ UnderBasename => pathname = BasenameRemoved

(* C5, amended: for the basename / stripBasename returns the pathname as   *)
(* it is; for any other basename it returns null exactly when the pathname *)
(* does not lie under the basename, and else the pathname with the         *)
(* basename removed; and when it returns null matchRoutes returns null     *)
(* without flattening the route tree.                                      *)
C5_StripBasename ==
  pc # "matchRoutes" =>
    /\ basename = <<"/">> => pathname = locationPathnameOrRoot(locationArg)
    /\ basename # <<"/">> =>
         /\ pathname = Null <=> ~UnderBasename
         /\ UnderBasename => pathname = BasenameRemoved
    /\ pathname = Null => pc = "returned" /\ matches.null /\ branches = <<>>

\* the pathname starts with the basename but goes on inside a segment, and
\* matchRoutes has returned null
C5_Witness ==
  /\ pc = "returned"
  /\ pathname = Null
  /\ matches.null
  /\ basename # <<"/">>
  /\ startsWith(toLowerCase(locationPathnameOrRoot(locationArg)), toLowerCase(basename))

(* C9: flattening either throws or gives every route whose path starts     *)
(* with / a branch whose path is that absolute path, repeated slashes      *)
(* collapsed.  The two are compared without their trailing slashes: a      *)
(* child that repeats the path of its parent gets the path with a slash    *)
(* added, which names the same place.                                      *)
C9_AbsolutePathKept ==
  pc \in {"rank", "loop", "returned"} =>
    \A b \in BranchSet :
      LET declared == routeAt(routes, childrenIndexes(b)).path
      IN (declared # Undefined /\ startsWith(declared, <<"/">>))
           => normalizePathname(b.path) = normalizePathname(collapseSlashes(declared))

\* ------------------------------------------------------------------------
\* Properties of resolveTo and resolvePath
\* ------------------------------------------------------------------------
\* the pathname of the target as handed in
GivenPathname ==
  IF toArg.isString THEN parsePath(toArg.str).pathname ELSE toArg.object.pathname

\* the number of leading .. segments
RECURSIVE leadingUps(_)
leadingUps(segments) ==
  IF Len(segments) > 0 /\ segments[1] = <<".", ".">>
    THEN 1 + leadingUps(Tail(segments)) ELSE 0

Ups == IF GivenPathname = Undefined THEN 0 ELSE leadingUps(split(GivenPathname))

\* what is left of the target pathname after its leading .. segments
Remainder == join(SubSeq(split(GivenPathname), Ups + 1, Len(split(GivenPathname))))

\* the pathname the claim resolves the remainder against
PoppedBase ==
  IF Ups <= Len(routePathnames) - 1
    THEN routePathnames[Len(routePathnames) - Ups]
    ELSE <<"/">>

\* the remainder resolved against a base, the trailing slash of the target kept
ResolvedAgainst(base) ==
  LET plain == IF Remainder = <<>> THEN base
               ELSE IF startsWith(Remainder, <<"/">>) THEN Remainder
               ELSE resolvePathname(Remainder, base)
  IN IF endsWith(GivenPathname, <<"/">>) /\ ~endsWith(plain, <<"/">>)
       THEN plain \o <<"/">> ELSE plain

(* C6: in resolveTo every leading .. of the target pathname pops one level *)
(* of the chain of route pathnames: with k of them and a chain of n, the   *)
(* rest of the target is resolved against routePathnames[n-1-k] when       *)
(* k <= n-1 and against / otherwise, whatever the location pathname.       *)
C6_LeadingUpsPopRoutes ==
  (called = "resolveTo" /\ Ups >= 1) =>
    /\ pc = "pop" =>
         routePathnameIndex
           = Len(routePathnames) - 1 - (Len(split(GivenPathname)) - Len(toSegments))
    /\ pc \in {"resolve", "resolved"} => from = PoppedBase
    /\ pc = "resolved" => path.pathname = ResolvedAgainst(PoppedBase)

\* a target of one .. and a rest has resolved against the route pathname
\* one level up, which is not the location pathname
C6_Witness ==
  /\ called = "resolveTo" /\ pc = "resolved"
  /\ Ups = 1 /\ Len(routePathnames) = 2
  /\ routePathnames[1] # routePathnames[2]
  /\ Remainder # <<>>
  /\ locationPathname # routePathnames[1]
  /\ path.pathname = resolvePathname(Remainder, routePathnames[1])

(* C7: every path resolvePath or resolveTo returns has a pathname that     *)
(* starts with /, a search that is empty or starts with ? and is not the   *)
(* bare ?, and a hash that is empty or starts with # and is not the bare #.*)
C7_ResolvedPathShape ==
  pc = "resolved" =>
    /\ startsWith(path.pathname, <<"/">>)
    /\ path.search = <<>> \/ (startsWith(path.search, <<"?">>) /\ path.search # <<"?">>)
    /\ path.hash = <<>> \/ (startsWith(path.hash, <<"#">>) /\ path.hash # <<"#">>)

\* a relative pathname, a bare ? and a hash without its # were resolved
C7_Witness ==
  /\ pc = "resolved"
  /\ ~toArg.isString
  /\ toArg.object.pathname = <<".", ".", "/", "a">>
  /\ toArg.object.search = <<"?">>
  /\ toArg.object.hash = <<"h">>
  /\ path.search = <<>>
  /\ path.hash = <<"#", "h">>

(* C8, as claimed: in resolveTo a target whose pathname is the empty       *)
(* string resolves its pathname to the location pathname.                  *)
C8_EmptyPathnameToLocation ==
  (called = "resolveTo" /\ pc = "resolved" /\ GivenPathname = <<>>)
    => path.pathname = locationPathname

(* C8, amended: in resolveTo a target with no pathname at all (an object   *)
(* without one, or a string of a search and/or a hash only) resolves its   *)
(* pathname to the location pathname; the empty string as the target, or a *)
(* pathname that is the empty string, resolves it to the last pathname of  *)
(* the chain of route pathnames, or to / when the chain is empty.          *)
C8_NoPathnameToLocation ==
  (called = "resolveTo" /\ pc = "resolved") =>
    /\ (GivenPathname = Undefined /\ ~(toArg.isString /\ toArg.str = <<>>))
         => path.pathname = locationPathname
    /\ (GivenPathname = <<>> \/ (toArg.isString /\ toArg.str = <<>>))
         => path.pathname = IF Len(routePathnames) > 0
                              THEN routePathnames[Len(routePathnames)]
                              ELSE <<"/">>

\* a search alone has resolved to the location pathname, which is not the
\* last route pathname
C8_Witness ==
  /\ called = "resolveTo" /\ pc = "resolved"
  /\ GivenPathname = Undefined
  /\ toArg.isString /\ toArg.str = <<"?", "q">>
  /\ Len(routePathnames) > 0
  /\ routePathnames[Len(routePathnames)] # locationPathname
  /\ path.pathname = locationPathname

\* ------------------------------------------------------------------------
\* C11: the boundary of a prefix match
\* ------------------------------------------------------------------------
\* the pattern of the call has no splat and is matched as a prefix
PrefixPattern == ~pattern.end /\ ~endsWith(pattern.path, <<"*">>)

\* matchPath has returned from a call with such a pattern
PrefixMatched == pc = "matched" /\ PrefixPattern

\* The number of characters of the pathname that the pattern itself
\* matched: the matched pathname, less the one slash that the boundary
\* takes where it takes one (the expression of a path other than / never
\* ends in a slash).
PrefixEnd ==
  LET n == Len(pathMatch.pathname)
  IN IF n > 1 /\ pathMatch.pathname[n] = "/" THEN n - 1 ELSE n

HexUpper == {"0", "1", "2", "3", "4", "5", "6", "7", "8", "9",
             "A", "B", "C", "D", "E", "F"}
HexAny == HexUpper \cup {"a", "b", "c", "d", "e", "f"}

\* the character after the first pos characters of s starts an escaped byte
EscapedByteAfter(s, pos, digits) ==
  /\ pos + 3 <= Len(s)
  /\ s[pos + 1] = "%"
  /\ s[pos + 2] \in digits
  /\ s[pos + 3] \in digits

\* the boundaries the statement lists: /, the end of the string, ., -, ~
\* or the start of an escaped byte
ListedBoundary(s, pos) ==
  \/ pos = Len(s)
  \/ pos < Len(s) /\ s[pos + 1] \in {"/", ".", "-", "~"}
  \/ EscapedByteAfter(s, pos, HexAny)

\* the word characters among the characters of the pathnames above
Word == {"a", "b", "f", "z", "A", "F", "2", "_"}

\* exactly one of the characters on the two sides of the position is a
\* letter, a digit or an underscore
WordBreak(s, pos) ==
  pos >= 1 /\ pos < Len(s) /\ ((s[pos] \in Word) # (s[pos + 1] \in Word))

\* the boundaries of the expression: the end of the string, /, ., -, ~, an
\* escaped byte (in capital digits for a case-sensitive pattern), or a
\* word break
ExpressionBoundary(s, pos, caseSensitive) ==
  \/ pos = Len(s)
  \/ pos < Len(s) /\ s[pos + 1] \in {"/", ".", "-", "~"}
  \/ EscapedByteAfter(s, pos, IF caseSensitive THEN HexUpper ELSE HexAny)
  \/ WordBreak(s, pos)

\* the pattern holds no parameter
LiteralPattern == \A k \in 1..Len(pattern.path) : pattern.path[k] # ":"

\* the pattern's path as the expression holds it: one leading slash and no
\* trailing slash
LiteralPrefix ==
  LET p == pattern.path
      last == CHOOSE n \in 0..Len(p) :
                /\ \A k \in (n + 1)..Len(p) : p[k] = "/"
                /\ (n > 0 => p[n] # "/")
      first == CHOOSE n \in 1..(last + 1) :
                 /\ \A k \in 1..(n - 1) : p[k] = "/"
                 /\ (n <= last => p[n] # "/")
  IN <<"/">> \o SubSeq(p, first, last)

\* the capital letters of the pathnames above, in lower case
Fold(c) ==
  CASE c = "A" -> "a"
    [] c = "F" -> "f"
    [] OTHER -> c

\* the pathname starts with the literal prefix, in the case the pattern asks
StartsWithLiteralPrefix ==
  /\ Len(pathnameArg) >= Len(LiteralPrefix)
  /\ \A k \in 1..Len(LiteralPrefix) :
       IF pattern.caseSensitive
         THEN pathnameArg[k] = LiteralPrefix[k]
         ELSE Fold(pathnameArg[k]) = Fold(LiteralPrefix[k])

\* C11 as stated: for a non-splat pattern with end = false, matchPath
\* succeeds only if the character after the matched prefix is /, the end of
\* the string, ., -, ~ or the start of a percent-encoded byte.
C11_ListedBoundaryOnly ==
  (PrefixMatched /\ pathMatch.matched) => ListedBoundary(pathnameArg, PrefixEnd)

\* C11 amended: for a non-splat pattern with end = false, matchPath succeeds
\* only if what follows the matched prefix is the end of the string, /, .,
\* -, ~, a percent-encoded byte or a word break (a letter, digit or
\* underscore on exactly one side); for a pattern without parameters it
\* succeeds exactly when the pathname starts with the pattern's path and
\* such a boundary follows, so a word character after a word character (as
\* /a against /a2) yields no match.
C11_ExpressionBoundary ==
  PrefixMatched =>
    /\ pathMatch.matched =>
         ExpressionBoundary(pathnameArg, PrefixEnd, pattern.caseSensitive)
    /\ LiteralPattern =>
         (pathMatch.matched <=>
            /\ StartsWithLiteralPrefix
            /\ ExpressionBoundary(pathnameArg, Len(LiteralPrefix),
                                  pattern.caseSensitive))

\* a prefix match of /a against /a!b, which a word break lets through
C11_Witness ==
  /\ PrefixMatched
  /\ pattern.path = <<"/", "a">>
  /\ pathnameArg = <<"/", "a", "!", "b">>
  /\ pathMatch.matched
  /\ pathMatch.pathname = <<"/", "a">>

\* ------------------------------------------------------------------------
\* C12: resolveTo leaves its inputs alone
\* ------------------------------------------------------------------------
\* the second of two calls of resolveTo with one target has returned
ReturnedAgain == called = "resolveTo" /\ pc = "resolved" /\ calls = 2

\* C12: resolveTo is a pure computation over its inputs: no step of a call
\* changes the caller's target object or the routePathnames sequence, and
\* a second call with the same target returns the ResolvedPath of the first.
C12_ResolveToPure ==
  /\ [][called = "resolveTo" =>
          /\ callerTo' = callerTo
          /\ routePathnames' = routePathnames]_vars
  /\ [](ReturnedAgain => path = firstPath)

\* a second call with a target object whose pathname starts with ..
\* returns another path than the first
C12_SecondCallDiffers ==
  /\ ReturnedAgain
  /\ ~toArg.isString
  /\ path # firstPath

\* with a string target resolveTo writes to the object parsePath made, and
\* the second call returns what the first returned
C12_StringTargetsRepeat ==
  (ReturnedAgain /\ toArg.isString) => (path = firstPath /\ callerTo = NoObject)

====
